---- MODULE Spec2Model ----
(***************************************************************************)
(* Model of the Traffic-Light-Detection-System decision logic:             *)
(*   analyzeTrafficLightColor  (tiered brightness colour classifier)       *)
(*   estimatePoleHeight        (position/size based pole height estimate)  *)
(*                                                                         *)
(* Numbers.  The source computes means as sum/count in IEEE doubles and    *)
(* compares them with thresholds.  The model keeps the sums and the count  *)
(* and compares after multiplying through by the (positive) count, which   *)
(* is the same comparison in exact arithmetic.  A count of zero makes the  *)
(* mean NaN in the source, and every comparison with NaN is false.         *)
(* Heights are kept in hundredths of a metre before rounding and in tenths *)
(* after rounding; confidences are kept in tenths.                         *)
(***************************************************************************)
EXTENDS Integers, Sequences, FiniteSets, TLC

VARIABLES
    pc,           \* "start" before the modelled call, "done" after it returned
    imageData,    \* argument of analyzeTrafficLightColor
    analysis,     \* what the call of analyzeTrafficLightColor did
    y1, y2,       \* vertical box coordinates given to estimatePoleHeight
    imageHeight,  \* imageHeight given to estimatePoleHeight
    poleHeight,   \* the PoleHeight returned by estimatePoleHeight
    cropInput,    \* item.box and the size of img in the map step of
                  \* runDetection
    cropped,      \* the rectangle asked of getImageData and the bbox kept
    \* State of the Index component
    selectedImage,      \* 0 is null, otherwise the id of an image
    isDetecting,
    detections,
    detectionProgress,
    isCameraActive,
    srcObject,          \* videoRef.current.srcObject: 0 or the id of a stream
    streams,            \* the MediaStreams asked of getUserMedia: "none",
                        \* "pending", "live" or "stopped"
    pendingReads,       \* the images whose FileReader load is under way
    runs,               \* the calls of runDetection under way: the await
                        \* each is at, and the selectedImage of its closure
    detectionsOf        \* history: the image a non-empty detections list
                        \* was computed from, 0 otherwise

fnVars == <<pc, imageData, analysis, y1, y2, imageHeight, poleHeight,
            cropInput, cropped>>

uiVars == <<selectedImage, isDetecting, detections, detectionProgress,
            isCameraActive, srcObject, streams, pendingReads, runs,
            detectionsOf>>

vars == <<pc, imageData, analysis, y1, y2, imageHeight, poleHeight,
          cropInput, cropped,
          selectedImage, isDetecting, detections, detectionProgress,
          isCameraActive, srcObject, streams, pendingReads, runs,
          detectionsOf>>

(***************************************************************************)
(* Bounds                                                                  *)
(***************************************************************************)
MaxPixels == 3
MaxHeight == 50   \* imageHeight ranges over 0..MaxHeight
MaxY == 52        \* box coordinates range over -Overhang..MaxY
Overhang == 2
MaxImages == 2    \* images are 1..MaxImages
MaxRuns == 2      \* calls of runDetection under way at a time
MaxStreams == 2   \* streams granted by getUserMedia in one behaviour
MaxResults == 2   \* items in one answer of the detector
MaxSide == 3      \* img.width and img.height range over 1..MaxSide

\* A pixel is <<r, g, b>>; alpha is never read by the classifier.
Palette ==
    { <<0, 255, 0>>,      \* bright, pure green
      <<200, 50, 50>>,    \* bright, red
      <<150, 120, 50>>,   \* bright, red rule and yellow rule both hold
      <<131, 140, 0>>,    \* bright, green rule and yellow rule both hold
      <<140, 125, 50>>,   \* bright, yellow only
      <<100, 100, 100>>,  \* bright, no rule
      <<100, 105, 100>>,  \* bright, no tier rule, greenish overall
      <<60, 60, 61>>,     \* brightness just above 60
      <<60, 60, 60>>,     \* brightness exactly 60: dim
      <<20, 60, 20>>,     \* dim, green
      <<60, 30, 30>>,     \* dim, red
      <<61, 55, 50>>,     \* dim, yellow only
      <<40, 42, 40>>,     \* dim, no tier rule, greenish overall
      <<25, 25, 25>>,     \* brightness exactly 25: very dim, no rule
      <<10, 20, 10>>,     \* very dim, green
      <<20, 10, 10>>,     \* very dim, red
      <<31, 28, 0>>,      \* very dim, yellow only
      <<10, 14, 10>>,     \* very dim, greenish but G <= 15
      <<10, 10, 10>>,     \* brightness exactly 10: ignored
      <<0, 30, 0>>,       \* brightness exactly 10: ignored, green overall
      <<0, 0, 0>> }       \* black: ignored

Regions == UNION { [1..n -> Palette] : n \in 0..MaxPixels }

ImageDatas ==
    { [defined |-> FALSE, data |-> <<>>] } \cup
    { [defined |-> TRUE, data |-> d] : d \in Regions }

(***************************************************************************)
(* analyzeTrafficLightColor                                                *)
(***************************************************************************)
ZeroAcc ==
    [ redSum |-> 0, greenSum |-> 0, blueSum |-> 0, brightPixels |-> 0,
      dimRedSum |-> 0, dimGreenSum |-> 0, dimBlueSum |-> 0, dimPixels |-> 0,
      veryDimRedSum |-> 0, veryDimGreenSum |-> 0, veryDimBlueSum |-> 0,
      veryDimPixels |-> 0 ]

\* brightness = (r + g + b) / 3;  brightness > k
BrightnessGt(p, k) == p[1] + p[2] + p[3] > 3 * k

\* The scan with ">= 25" in place of "> 25" for the dim band.
ScanPixelDimInclusive(acc, p) ==
    IF BrightnessGt(p, 60) THEN
        [acc EXCEPT !.redSum = @ + p[1], !.greenSum = @ + p[2],
                    !.blueSum = @ + p[3], !.brightPixels = @ + 1]
    ELSE IF p[1] + p[2] + p[3] >= 3 * 25 THEN
        [acc EXCEPT !.dimRedSum = @ + p[1], !.dimGreenSum = @ + p[2],
                    !.dimBlueSum = @ + p[3], !.dimPixels = @ + 1]
    ELSE IF BrightnessGt(p, 10) THEN
        [acc EXCEPT !.veryDimRedSum = @ + p[1], !.veryDimGreenSum = @ + p[2],
                    !.veryDimBlueSum = @ + p[3], !.veryDimPixels = @ + 1]
    ELSE acc

\* The scan with the red and green channels exchanged in the bright bucket.
ScanPixelSwapped(acc, p) ==
    IF BrightnessGt(p, 60) THEN
        [acc EXCEPT !.redSum = @ + p[2], !.greenSum = @ + p[1],
                    !.blueSum = @ + p[3], !.brightPixels = @ + 1]
    ELSE IF BrightnessGt(p, 25) THEN
        [acc EXCEPT !.dimRedSum = @ + p[1], !.dimGreenSum = @ + p[2],
                    !.dimBlueSum = @ + p[3], !.dimPixels = @ + 1]
    ELSE IF BrightnessGt(p, 10) THEN
        [acc EXCEPT !.veryDimRedSum = @ + p[1], !.veryDimGreenSum = @ + p[2],
                    !.veryDimBlueSum = @ + p[3], !.veryDimPixels = @ + 1]
    ELSE acc

\* One iteration of the scan loop.
ScanPixel(acc, p) ==
    IF BrightnessGt(p, 60) THEN
        [acc EXCEPT !.redSum = @ + p[1], !.greenSum = @ + p[2],
                    !.blueSum = @ + p[3], !.brightPixels = @ + 1]
    ELSE IF BrightnessGt(p, 25) THEN
        [acc EXCEPT !.dimRedSum = @ + p[1], !.dimGreenSum = @ + p[2],
                    !.dimBlueSum = @ + p[3], !.dimPixels = @ + 1]
    ELSE IF BrightnessGt(p, 10) THEN
        [acc EXCEPT !.veryDimRedSum = @ + p[1], !.veryDimGreenSum = @ + p[2],
                    !.veryDimBlueSum = @ + p[3], !.veryDimPixels = @ + 1]
    ELSE acc

RECURSIVE ScanPixels(_, _, _)
ScanPixels(data, i, acc) ==
    IF i > Len(data) THEN acc
    ELSE ScanPixels(data, i + 1, ScanPixel(acc, data[i]))

\* aSum/n > bSum/n + k
AvgGt(aSum, bSum, k, n) == n > 0 /\ aSum > bSum + k * n
\* aSum/n > c
AvgAbove(aSum, c, n) == n > 0 /\ aSum > c * n
\* aSum/n < c
AvgBelow(aSum, c, n) == n > 0 /\ aSum < c * n

\* The bright rules with the Yellow test ahead of the Green test.
BrightRulesYellowFirst(r, g, b, n) ==
    IF AvgAbove(r, 130, n) /\ AvgAbove(g, 100, n) /\ AvgBelow(b, 100, n)
         THEN "Yellow"
    ELSE IF AvgGt(g, r, 8, n) /\ AvgGt(g, b, 8, n) THEN "Green"
    ELSE IF AvgGt(r, g, 20, n) /\ AvgGt(r, b, 20, n) THEN "Red"
    ELSE "None"

\* The bright rules with a red margin of 200 in place of 20.
BrightRulesRedMargin(r, g, b, n) ==
    IF AvgGt(g, r, 8, n) /\ AvgGt(g, b, 8, n) THEN "Green"
    ELSE IF AvgGt(r, g, 200, n) /\ AvgGt(r, b, 200, n) THEN "Red"
    ELSE IF AvgAbove(r, 130, n) /\ AvgAbove(g, 100, n) /\ AvgBelow(b, 100, n)
         THEN "Yellow"
    ELSE "None"

\* The rules inside "if (brightPixels > 0)"; "None" is leaving the block
\* without a return.
BrightRules(r, g, b, n) ==
    IF AvgGt(g, r, 8, n) /\ AvgGt(g, b, 8, n) THEN "Green"
    ELSE IF AvgGt(r, g, 20, n) /\ AvgGt(r, b, 20, n) THEN "Red"
    ELSE IF AvgAbove(r, 130, n) /\ AvgAbove(g, 100, n) /\ AvgBelow(b, 100, n)
         THEN "Yellow"
    ELSE "None"

DimRules(r, g, b, n) ==
    IF AvgGt(g, r, 3, n) /\ AvgGt(g, b, 3, n) THEN "Green"
    ELSE IF AvgGt(r, g, 8, n) /\ AvgGt(r, b, 8, n) THEN "Red"
    ELSE IF AvgAbove(r, 60, n) /\ AvgAbove(g, 45, n) /\ AvgBelow(b, 60, n)
         THEN "Yellow"
    ELSE "None"

VeryDimRules(r, g, b, n) ==
    IF AvgGt(g, r, 1, n) /\ AvgGt(g, b, 1, n) /\ AvgAbove(g, 15, n)
         THEN "Green"
    ELSE IF AvgGt(r, g, 3, n) /\ AvgGt(r, b, 3, n) THEN "Red"
    ELSE IF AvgAbove(r, 30, n) /\ AvgAbove(g, 25, n) /\ AvgBelow(b, 40, n)
         THEN "Yellow"
    ELSE "None"

RECURSIVE ChannelSum(_, _, _)
ChannelSum(data, c, i) ==
    IF i > Len(data) THEN 0 ELSE data[i][c] + ChannelSum(data, c, i + 1)

\* The last-resort check with the means taken over the lit pixels only.
OverallCheckLitOnly(data) ==
    LET lit          == SelectSeq(data, LAMBDA p : BrightnessGt(p, 10))
        totalPixels  == Len(lit)
        overallRed   == ChannelSum(lit, 1, 1)
        overallGreen == ChannelSum(lit, 2, 1)
        overallBlue  == ChannelSum(lit, 3, 1)
    IN  IF /\ AvgGt(overallGreen, overallRed, 1, totalPixels)
           /\ AvgGt(overallGreen, overallBlue, 1, totalPixels)
           /\ AvgAbove(overallGreen, 20, totalPixels)
        THEN "Green" ELSE "Unknown"

\* The second loop and the last-resort green check.
OverallCheck(data) ==
    LET totalPixels  == Len(data)
        overallRed   == ChannelSum(data, 1, 1)
        overallGreen == ChannelSum(data, 2, 1)
        overallBlue  == ChannelSum(data, 3, 1)
    IN  IF /\ AvgGt(overallGreen, overallRed, 1, totalPixels)
           /\ AvgGt(overallGreen, overallBlue, 1, totalPixels)
           /\ AvgAbove(overallGreen, 20, totalPixels)
        THEN "Green" ELSE "Unknown"

\* "if (dimPixels > 0)" is reached only when the bright block did not return.
EnterDimElseIf(bright, acc) == acc.brightPixels = 0 /\ acc.dimPixels > 0
EnterDim(bright, acc) == bright = "None" /\ acc.dimPixels > 0

\* "if (veryDimPixels > 0)" is reached only when neither block returned.
EnterVeryDim(bright, dim, acc) ==
    bright = "None" /\ dim = "None" /\ acc.veryDimPixels > 0

\* The body after the "!imageData" guard.  threw: an exception left the
\* function; label: the returned string; site: which return statement
\* produced it; consulted: the tier blocks that were entered; acc: the scan
\* loop's sums and counts.
analyzePixels(data) ==
    LET acc == ScanPixels(data, 1, ZeroAcc)
        inBright == acc.brightPixels > 0
        bright == IF inBright
                  THEN BrightRules(acc.redSum, acc.greenSum, acc.blueSum,
                                   acc.brightPixels)
                  ELSE "None"
        inDim == EnterDim(bright, acc)
        dim == IF inDim
               THEN DimRules(acc.dimRedSum, acc.dimGreenSum,
                             acc.dimBlueSum, acc.dimPixels)
               ELSE "None"
        inVeryDim == EnterVeryDim(bright, dim, acc)
        veryDim == IF inVeryDim
                   THEN VeryDimRules(acc.veryDimRedSum, acc.veryDimGreenSum,
                                     acc.veryDimBlueSum, acc.veryDimPixels)
                   ELSE "None"
        consulted == (IF inBright THEN {"bright"} ELSE {}) \cup
                     (IF inDim THEN {"dim"} ELSE {}) \cup
                     (IF inVeryDim THEN {"veryDim"} ELSE {})
    IN  IF bright # "None" THEN
            [threw |-> FALSE, label |-> bright, site |-> "bright",
             consulted |-> consulted, acc |-> acc]
        ELSE IF dim # "None" THEN
            [threw |-> FALSE, label |-> dim, site |-> "dim",
             consulted |-> consulted, acc |-> acc]
        ELSE IF veryDim # "None" THEN
            [threw |-> FALSE, label |-> veryDim, site |-> "veryDim",
             consulted |-> consulted, acc |-> acc]
        ELSE
            [threw |-> FALSE, label |-> OverallCheck(data),
             site |-> "overall", consulted |-> consulted, acc |-> acc]

\* Without the guard, "imageData.data" of undefined raises a TypeError.
analyzeUnguarded(img) ==
    IF ~img.defined THEN
        [threw |-> TRUE, label |-> "None", site |-> "none",
         consulted |-> {}, acc |-> ZeroAcc]
    ELSE analyzePixels(img.data)

analyzeTrafficLightColor(img) ==
    IF ~img.defined THEN
        [threw |-> FALSE, label |-> "Unknown", site |-> "guard",
         consulted |-> {}, acc |-> ZeroAcc]
    ELSE analyzePixels(img.data)

(***************************************************************************)
(* estimatePoleHeight                                                      *)
(***************************************************************************)
\* num/den as JavaScript computes it for den >= 0: a finite quotient, or
\* for den = 0 one of Infinity, -Infinity and NaN.
Div(num, den) ==
    IF den # 0 THEN [kind |-> "finite", num |-> num, den |-> den]
    ELSE IF num > 0 THEN [kind |-> "Infinity", num |-> 0, den |-> 1]
    ELSE IF num < 0 THEN [kind |-> "-Infinity", num |-> 0, den |-> 1]
    ELSE [kind |-> "NaN", num |-> 0, den |-> 1]

\* q > a/b and q < a/b for b > 0; false when q is NaN.
RatioGt(q, a, b) ==
    CASE q.kind = "finite"    -> q.num * b > a * q.den
      [] q.kind = "Infinity"  -> TRUE
      [] q.kind = "-Infinity" -> FALSE
      [] q.kind = "NaN"       -> FALSE

RatioLt(q, a, b) ==
    CASE q.kind = "finite"    -> q.num * b < a * q.den
      [] q.kind = "Infinity"  -> FALSE
      [] q.kind = "-Infinity" -> TRUE
      [] q.kind = "NaN"       -> FALSE

Abs(x) == IF x < 0 THEN 0 - x ELSE x
Min(a, b) == IF a < b THEN a ELSE b
Max(a, b) == IF a > b THEN a ELSE b

\* Base values with 0.4 as the confidence of the last branch.
BaseEstimateLowConfidence(positionRatio) ==
    IF RatioGt(positionRatio, 7, 10) THEN
        [height |-> 450, confidence |-> 8,
         referenceUsed |-> "Standard urban intersection"]
    ELSE IF RatioGt(positionRatio, 4, 10) THEN
        [height |-> 520, confidence |-> 7,
         referenceUsed |-> "Highway or major road"]
    ELSE
        [height |-> 610, confidence |-> 4,
         referenceUsed |-> "Highway overpass"]

\* Base values with ">= 0.7" in place of "> 0.7".
BaseEstimateInclusive(positionRatio) ==
    IF ~RatioLt(positionRatio, 7, 10) /\ positionRatio.kind # "NaN" THEN
        [height |-> 450, confidence |-> 8,
         referenceUsed |-> "Standard urban intersection"]
    ELSE IF RatioGt(positionRatio, 4, 10) THEN
        [height |-> 520, confidence |-> 7,
         referenceUsed |-> "Highway or major road"]
    ELSE
        [height |-> 610, confidence |-> 6,
         referenceUsed |-> "Highway overpass"]

\* The if / else if / else on positionRatio: height in hundredths of a
\* metre, confidence in tenths.
BaseEstimate(positionRatio) ==
    IF RatioGt(positionRatio, 7, 10) THEN
        [height |-> 450, confidence |-> 8,
         referenceUsed |-> "Standard urban intersection"]
    ELSE IF RatioGt(positionRatio, 4, 10) THEN
        [height |-> 520, confidence |-> 7,
         referenceUsed |-> "Highway or major road"]
    ELSE
        [height |-> 610, confidence |-> 6,
         referenceUsed |-> "Highway overpass"]

\* The size adjustment with "<= 0.02" in place of "< 0.02".
SizeAdjustInclusive(e, sizeRatio) ==
    IF RatioGt(sizeRatio, 1, 10) THEN
        [e EXCEPT !.height = (@ * 9) \div 10,
                  !.confidence = Min(@ + 1, 9)]
    ELSE IF ~RatioGt(sizeRatio, 2, 100) /\ sizeRatio.kind # "NaN" THEN
        [e EXCEPT !.height = (@ * 12) \div 10,
                  !.confidence = Max(@ - 1, 5)]
    ELSE e

\* The size adjustment with "< 0.2" in place of "< 0.02".
SizeAdjustWideSmall(e, sizeRatio) ==
    IF RatioGt(sizeRatio, 1, 10) THEN
        [e EXCEPT !.height = (@ * 9) \div 10,
                  !.confidence = Min(@ + 1, 9)]
    ELSE IF RatioLt(sizeRatio, 2, 10) THEN
        [e EXCEPT !.height = (@ * 12) \div 10,
                  !.confidence = Max(@ - 1, 5)]
    ELSE e

\* The size adjustment with "> 0.01" in place of "> 0.1".
SizeAdjustLargeTypo(e, sizeRatio) ==
    IF RatioGt(sizeRatio, 1, 100) THEN
        [e EXCEPT !.height = (@ * 9) \div 10,
                  !.confidence = Min(@ + 1, 9)]
    ELSE IF RatioLt(sizeRatio, 2, 100) THEN
        [e EXCEPT !.height = (@ * 12) \div 10,
                  !.confidence = Max(@ - 1, 5)]
    ELSE e

\* The if / else if on sizeRatio.
SizeAdjust(e, sizeRatio) ==
    IF RatioGt(sizeRatio, 1, 10) THEN
        [e EXCEPT !.height = (@ * 9) \div 10,
                  !.confidence = Min(@ + 1, 9)]
    ELSE IF RatioLt(sizeRatio, 2, 100) THEN
        [e EXCEPT !.height = (@ * 12) \div 10,
                  !.confidence = Max(@ - 1, 5)]
    ELSE e

\* Truncation to one decimal place in place of rounding.
RoundTenthFloor(h) == h \div 10

\* Math.round(estimatedHeight * 10) / 10, from hundredths to tenths.
RoundTenth(h) == (h + 5) \div 10

\* x1, x2 and imageWidth are parameters the function never reads.
estimatePoleHeight(yTop, yBottom, imgHeight) ==
    LET lightHeight   == Abs(yBottom - yTop)
        positionRatio == Div(yTop + yBottom, 2 * imgHeight)
        sizeRatio     == Div(lightHeight, imgHeight)
        e == SizeAdjust(BaseEstimate(positionRatio), sizeRatio)
    IN  [estimatedHeight |-> RoundTenth(e.height),
         confidence |-> e.confidence,
         referenceUsed |-> e.referenceUsed,
         threw |-> FALSE]

NotAnalyzed ==
    [threw |-> FALSE, label |-> "None", site |-> "none", consulted |-> {},
     acc |-> ZeroAcc]

NoPoleHeight ==
    [estimatedHeight |-> 0, confidence |-> 0, referenceUsed |-> "none",
     threw |-> FALSE]

(***************************************************************************)
(* The crop of the map step of runDetection                                *)
(***************************************************************************)
\* Lines 400-413: the rectangle handed to getImageData and the bbox kept
\* in the detection.  getImageData throws IndexSizeError when the width or
\* the height is zero; a negative width or height is accepted.
cropRegion(box, imgWidth, imgHeight) ==
    LET x == Max(0, box.xmin)
        y == Max(0, box.ymin)
        width == Min(imgWidth - x, box.xmax - box.xmin)
        height == Min(imgHeight - y, box.ymax - box.ymin)
    IN  [x |-> x, y |-> y, width |-> width, height |-> height,
         threw |-> (width = 0 \/ height = 0),
         bbox |-> <<x, y, box.xmax, box.ymax>>]

NoCropInput ==
    [box |-> [xmin |-> 0, ymin |-> 0, xmax |-> 0, ymax |-> 0],
     width |-> 0, height |-> 0]

NotCropped ==
    [x |-> 0, y |-> 0, width |-> 0, height |-> 0, threw |-> FALSE,
     bbox |-> <<0, 0, 0, 0>>]

(***************************************************************************)
(* The Index component: image selection, camera and runDetection           *)
(***************************************************************************)
Images == 1..MaxImages
RunIds == 1..MaxRuns
StreamIds == 1..MaxStreams

\* What the detector may answer per item: its label, its score in
\* hundredths, and the pixels that getImageData yields for its box
\* (the canvas is taken to have a 2d context).
GreenCrop  == [defined |-> TRUE, data |-> << <<0, 255, 0>> >>]
RedCrop    == [defined |-> TRUE, data |-> << <<200, 50, 50>> >>]
GreyCrop   == [defined |-> TRUE, data |-> << <<100, 100, 100>> >>]

Items ==
    { [label |-> "traffic light", score |-> 90, region |-> GreenCrop],
      [label |-> "stop sign",     score |-> 50, region |-> RedCrop],
      [label |-> "traffic light", score |-> 50, region |-> GreyCrop],
      [label |-> "traffic light", score |-> 10, region |-> GreenCrop],
      [label |-> "car",           score |-> 90, region |-> RedCrop] }

ResultLists == UNION { [1..n -> Items] : n \in 0..MaxResults }

\* label.toLowerCase() includes one of the keywords of the first filter.
LabelMatches(label) == label \in {"traffic light", "stop sign"}

\* The first filter: score > 0.1 and a keyword in the label.
IsCandidate(item) == item.score > 10 /\ LabelMatches(item.label)

\* The map step; from is a history field naming the detector item.
ToDetection(item) ==
    [label |-> analyzeTrafficLightColor(item.region).label,
     confidence |-> item.score,
     from |-> item]

\* The second filter.
IsIlluminated(d) ==
    d.label \in {"Red", "Yellow", "Green"} /\ d.confidence > 10

RECURSIVE MapDetections(_)
MapDetections(s) ==
    IF s = <<>> THEN <<>>
    ELSE <<ToDetection(Head(s))>> \o MapDetections(Tail(s))

\* Insert d behind every element whose confidence is not smaller: the
\* stable descending order of sort((a, b) => b.confidence - a.confidence).
RECURSIVE InsertByConfidence(_, _)
InsertByConfidence(s, d) ==
    IF s = <<>> THEN <<d>>
    ELSE IF Head(s).confidence >= d.confidence
         THEN <<Head(s)>> \o InsertByConfidence(Tail(s), d)
         ELSE <<d>> \o s

RECURSIVE SortByConfidence(_)
SortByConfidence(s) ==
    IF s = <<>> THEN <<>>
    ELSE InsertByConfidence(SortByConfidence(SubSeq(s, 1, Len(s) - 1)),
                            s[Len(s)])

\* filter, map and sort without the second filter.
ProcessResultsUnfiltered(results) ==
    SortByConfidence(MapDetections(SelectSeq(results, IsCandidate)))

\* filter, map, filter and sort of runDetection.
ProcessResults(results) ==
    SortByConfidence(
        SelectSeq(MapDetections(SelectSeq(results, IsCandidate)),
                  IsIlluminated))

\* What the synchronous tail of runDetection computes, over every answer
\* of the detector.
Processed == { ProcessResults(results) : results \in ResultLists }

IdleRun == [pc |-> "idle", image |-> 0]

InitIndex ==
    /\ selectedImage = 0
    /\ isDetecting = FALSE
    /\ detections = <<>>
    /\ detectionProgress = 0
    /\ isCameraActive = FALSE
    /\ srcObject = 0
    /\ streams = [s \in StreamIds |-> "none"]
    /\ pendingReads = {}
    /\ runs = [r \in RunIds |-> IdleRun]
    /\ detectionsOf = 0

\* handleFileUpload: a file was chosen, its FileReader starts reading.  The
\* change event fires for a file other than the one being read.
HandleFileUpload(img) ==
    /\ img \notin pendingReads
    /\ pendingReads' = pendingReads \cup {img}
    /\ UNCHANGED <<selectedImage, isDetecting, detections, detectionProgress,
                   isCameraActive, srcObject, streams, runs, detectionsOf>>
    /\ UNCHANGED fnVars

\* reader.onload
ReaderOnLoad(img) ==
    /\ img \in pendingReads
    /\ pendingReads' = pendingReads \ {img}
    /\ selectedImage' = img
    /\ detections' = <<>>
    /\ detectionsOf' = 0
    /\ UNCHANGED <<isDetecting, detectionProgress, isCameraActive, srcObject,
                   streams, runs>>
    /\ UNCHANGED fnVars

\* startCamera up to its await; the button is disabled while isCameraActive.
StartCamera(s) ==
    /\ ~isCameraActive
    /\ streams[s] = "none"
    /\ \A t \in StreamIds : t < s => streams[t] # "none"
    /\ streams' = [streams EXCEPT ![s] = "pending"]
    /\ UNCHANGED <<selectedImage, isDetecting, detections, detectionProgress,
                   isCameraActive, srcObject, pendingReads, runs,
                   detectionsOf>>
    /\ UNCHANGED fnVars

\* getUserMedia resolved: the rest of the try block of startCamera.
CameraGranted(s) ==
    /\ streams[s] = "pending"
    /\ streams' = [streams EXCEPT ![s] = "live"]
    /\ srcObject' = s
    /\ isCameraActive' = TRUE
    /\ UNCHANGED <<selectedImage, isDetecting, detections, detectionProgress,
                   pendingReads, runs, detectionsOf>>
    /\ UNCHANGED fnVars

\* getUserMedia rejected: the catch block of startCamera.
CameraDenied(s) ==
    /\ streams[s] = "pending"
    /\ streams' = [streams EXCEPT ![s] = "none"]
    /\ UNCHANGED <<selectedImage, isDetecting, detections, detectionProgress,
                   isCameraActive, srcObject, pendingReads, runs,
                   detectionsOf>>
    /\ UNCHANGED fnVars

\* stream.getTracks().forEach(track => track.stop()) on srcObject
StopTracks(s) ==
    IF s = 0 THEN streams ELSE [streams EXCEPT ![s] = "stopped"]

\* capturePhoto; the button is enabled while isCameraActive.  ready is
\* videoWidth > 0, img the photo taken.
CapturePhoto(img, ready) ==
    /\ isCameraActive
    /\ IF ready THEN
           /\ selectedImage' = img
           /\ detections' = <<>>
           /\ detectionsOf' = 0
           /\ streams' = StopTracks(srcObject)
           /\ isCameraActive' = FALSE
       ELSE
           UNCHANGED <<selectedImage, detections, detectionsOf, streams,
                       isCameraActive>>
    /\ UNCHANGED <<isDetecting, detectionProgress, srcObject, pendingReads,
                   runs>>
    /\ UNCHANGED fnVars

\* resetApp; the Reset button is rendered while an image is selected.
ResetApp ==
    /\ selectedImage # 0
    /\ selectedImage' = 0
    /\ detections' = <<>>
    /\ detectionsOf' = 0
    /\ detectionProgress' = 0
    /\ isDetecting' = FALSE
    /\ IF srcObject # 0 THEN
           /\ streams' = StopTracks(srcObject)
           /\ isCameraActive' = FALSE
       ELSE UNCHANGED <<streams, isCameraActive>>
    /\ UNCHANGED <<srcObject, pendingReads, runs>>
    /\ UNCHANGED fnVars

\* runDetection up to "await pipeline(...)"; the Analyze button is rendered
\* while an image is selected, isDetecting is false and detections is empty.
RunDetectionStart(r) ==
    /\ selectedImage # 0
    /\ ~isDetecting
    /\ detections = <<>>
    /\ runs[r].pc = "idle"
    /\ \A q \in RunIds : q < r => runs[q].pc # "idle"
    /\ isDetecting' = TRUE
    /\ detectionProgress' = 10
    /\ runs' = [runs EXCEPT ![r] = [pc |-> "pipeline",
                                    image |-> selectedImage]]
    /\ UNCHANGED <<selectedImage, detections, isCameraActive, srcObject,
                   streams, pendingReads, detectionsOf>>
    /\ UNCHANGED fnVars

\* The model is loaded: up to the await of the image load.
PipelineLoaded(r) ==
    /\ runs[r].pc = "pipeline"
    /\ detectionProgress' = 30
    /\ runs' = [runs EXCEPT ![r].pc = "image"]
    /\ UNCHANGED <<selectedImage, isDetecting, detections, isCameraActive,
                   srcObject, streams, pendingReads, detectionsOf>>
    /\ UNCHANGED fnVars

\* img.onload: up to "await detector(selectedImage)".
ImageLoaded(r) ==
    /\ runs[r].pc = "image"
    /\ detectionProgress' = 50
    /\ runs' = [runs EXCEPT ![r].pc = "detector"]
    /\ UNCHANGED <<selectedImage, isDetecting, detections, isCameraActive,
                   srcObject, streams, pendingReads, detectionsOf>>
    /\ UNCHANGED fnVars

\* The detector answered: the rest of the try block and the finally block;
\* found is the sorted list computed from the answer.
DetectorAnswered(r, found) ==
    /\ runs[r].pc = "detector"
    /\ detections' = found
    /\ detectionsOf' = IF found = <<>> THEN 0 ELSE runs[r].image
    /\ detectionProgress' = 100
    /\ isDetecting' = FALSE
    /\ runs' = [runs EXCEPT ![r] = IdleRun]
    /\ UNCHANGED <<selectedImage, isCameraActive, srcObject, streams,
                   pendingReads>>
    /\ UNCHANGED fnVars

\* An awaited step rejected: the catch block and the finally block.
RunFailed(r) ==
    /\ runs[r].pc \in {"pipeline", "image", "detector"}
    /\ isDetecting' = FALSE
    /\ runs' = [runs EXCEPT ![r] = IdleRun]
    /\ UNCHANGED <<selectedImage, detections, detectionProgress,
                   isCameraActive, srcObject, streams, pendingReads,
                   detectionsOf>>
    /\ UNCHANGED fnVars

Init ==
    /\ pc = "start"
    /\ imageData = [defined |-> FALSE, data |-> <<>>]
    /\ analysis = NotAnalyzed
    /\ y1 = 0 /\ y2 = 0 /\ imageHeight = 0
    /\ poleHeight = NoPoleHeight
    /\ cropInput = NoCropInput
    /\ cropped = NotCropped
    /\ InitIndex

Next ==
    \/ \E img \in Images : HandleFileUpload(img)
    \/ \E img \in Images : ReaderOnLoad(img)
    \/ \E s \in StreamIds : StartCamera(s)
    \/ \E s \in StreamIds : CameraGranted(s)
    \/ \E s \in StreamIds : CameraDenied(s)
    \/ \E img \in Images, ready \in BOOLEAN : CapturePhoto(img, ready)
    \/ ResetApp
    \/ \E r \in RunIds : RunDetectionStart(r)
    \/ \E r \in RunIds : PipelineLoaded(r)
    \/ \E r \in RunIds : ImageLoaded(r)
    \/ \E r \in RunIds, found \in Processed : DetectorAnswered(r, found)
    \/ \E r \in RunIds : RunFailed(r)

Spec == Init /\ [][Next]_vars

\* Image selection and runDetection alone: no camera is ever started.
NextDetect ==
    \/ \E img \in Images : HandleFileUpload(img)
    \/ \E img \in Images : ReaderOnLoad(img)
    \/ ResetApp
    \/ \E r \in RunIds : RunDetectionStart(r)
    \/ \E r \in RunIds : PipelineLoaded(r)
    \/ \E r \in RunIds : ImageLoaded(r)
    \/ \E r \in RunIds, found \in Processed : DetectorAnswered(r, found)
    \/ \E r \in RunIds : RunFailed(r)

SpecDetect == Init /\ [][NextDetect]_vars

(***************************************************************************)
(* The classifier applied to every region of the bounded input space       *)
(***************************************************************************)
InitClassify ==
    /\ pc = "start"
    /\ imageData \in ImageDatas
    /\ analysis = NotAnalyzed
    /\ y1 = 0 /\ y2 = 0 /\ imageHeight = 0
    /\ poleHeight = NoPoleHeight
    /\ cropInput = NoCropInput
    /\ cropped = NotCropped
    /\ InitIndex

Classify ==
    /\ pc = "start"
    /\ analysis' = analyzeTrafficLightColor(imageData)
    /\ pc' = "done"
    /\ UNCHANGED <<imageData, y1, y2, imageHeight, poleHeight, cropInput,
                   cropped>>
    /\ UNCHANGED uiVars

NextClassify == Classify

SpecClassify == InitClassify /\ [][NextClassify]_vars

(***************************************************************************)
(* The estimator applied to every box and image height of the bounded      *)
(* input space                                                             *)
(***************************************************************************)
\* Every small box and image height, and the 1000 x 1000 image with the box
\* (480, 100, 520, 140).
BoxYs == ((0 - Overhang)..MaxY) \cup {100, 140}
ImageHeights == (0..MaxHeight) \cup {1000}

InitEstimate ==
    /\ pc = "start"
    /\ imageData = [defined |-> FALSE, data |-> <<>>]
    /\ analysis = NotAnalyzed
    /\ y1 \in BoxYs
    /\ y2 \in BoxYs
    /\ imageHeight \in ImageHeights
    /\ poleHeight = NoPoleHeight
    /\ cropInput = NoCropInput
    /\ cropped = NotCropped
    /\ InitIndex

Estimate ==
    /\ pc = "start"
    /\ poleHeight' = estimatePoleHeight(y1, y2, imageHeight)
    /\ pc' = "done"
    /\ UNCHANGED <<imageData, analysis, y1, y2, imageHeight, cropInput,
                   cropped>>
    /\ UNCHANGED uiVars

NextEstimate == Estimate

SpecEstimate == InitEstimate /\ [][NextEstimate]_vars

(***************************************************************************)
(* The crop applied to every box and image size of the bounded input space *)
(***************************************************************************)
\* Box coordinates as the detector gives them: xmin <= xmax, ymin <= ymax,
\* not confined to the image.
BoxCoords == (0 - Overhang)..(MaxSide + Overhang)
Boxes ==
    { b \in [xmin : BoxCoords, ymin : BoxCoords,
              xmax : BoxCoords, ymax : BoxCoords] :
          b.xmin <= b.xmax /\ b.ymin <= b.ymax }
CropInputs == [box : Boxes, width : 1..MaxSide, height : 1..MaxSide]

InitCrop ==
    /\ pc = "start"
    /\ imageData = [defined |-> FALSE, data |-> <<>>]
    /\ analysis = NotAnalyzed
    /\ y1 = 0 /\ y2 = 0 /\ imageHeight = 0
    /\ poleHeight = NoPoleHeight
    /\ cropInput \in CropInputs
    /\ cropped = NotCropped
    /\ InitIndex

Crop ==
    /\ pc = "start"
    /\ cropped' = cropRegion(cropInput.box, cropInput.width, cropInput.height)
    /\ pc' = "done"
    /\ UNCHANGED <<imageData, analysis, y1, y2, imageHeight, poleHeight,
                   cropInput>>
    /\ UNCHANGED uiVars

NextCrop == Crop

SpecCrop == InitCrop /\ [][NextCrop]_vars

(***************************************************************************)
(* Properties of analyzeTrafficLightColor.  The definitions below restate  *)
(* the brightness bands, the tier means and the colour rules from their    *)
(* description, over the set of pixel positions of the region.             *)
(***************************************************************************)
Tiers == {"bright", "dim", "veryDim"}

\* Three times the brightness of a pixel.
Sum3(p) == p[1] + p[2] + p[3]

InBand(p, band) ==
    CASE band = "bright"  -> Sum3(p) > 180
      [] band = "dim"     -> 75 < Sum3(p) /\ Sum3(p) <= 180
      [] band = "veryDim" -> 30 < Sum3(p) /\ Sum3(p) <= 75
      [] band = "ignored" -> Sum3(p) <= 30

BandOf(data, band) == { i \in 1..Len(data) : InBand(data[i], band) }

RECURSIVE SumOver(_, _, _)
SumOver(data, S, c) ==
    IF S = {} THEN 0
    ELSE LET i == CHOOSE j \in S : TRUE
         IN  data[i][c] + SumOver(data, S \ {i}, c)

\* Margins and floors of the rules, per tier.
Margin ==
    [ bright  |-> [green |-> 8, red |-> 20, yr |-> 130, yg |-> 100,
                   yb |-> 100],
      dim     |-> [green |-> 3, red |-> 8, yr |-> 60, yg |-> 45, yb |-> 60],
      veryDim |-> [green |-> 1, red |-> 3, yr |-> 30, yg |-> 25, yb |-> 40] ]

\* The rules on the means R/n, G/n, B/n of the pixels S of a tier (n > 0).
GreenRule(tier, data) ==
    LET S == BandOf(data, tier)
        n == Cardinality(S)
        R == SumOver(data, S, 1)
        G == SumOver(data, S, 2)
        B == SumOver(data, S, 3)
    IN  /\ G > R + Margin[tier].green * n
        /\ G > B + Margin[tier].green * n
        /\ (tier = "veryDim" => G > 15 * n)

RedRule(tier, data) ==
    LET S == BandOf(data, tier)
        n == Cardinality(S)
        R == SumOver(data, S, 1)
        G == SumOver(data, S, 2)
        B == SumOver(data, S, 3)
    IN  /\ R > G + Margin[tier].red * n
        /\ R > B + Margin[tier].red * n

YellowRule(tier, data) ==
    LET S == BandOf(data, tier)
        n == Cardinality(S)
        R == SumOver(data, S, 1)
        G == SumOver(data, S, 2)
        B == SumOver(data, S, 3)
    IN  /\ R > Margin[tier].yr * n
        /\ G > Margin[tier].yg * n
        /\ B < Margin[tier].yb * n

RuleHolds(colour, tier, data) ==
    CASE colour = "Green"  -> GreenRule(tier, data)
      [] colour = "Red"    -> RedRule(tier, data)
      [] colour = "Yellow" -> YellowRule(tier, data)

\* A tier matches when it is non-empty and some rule holds of its means.
TierMatches(tier, data) ==
    /\ BandOf(data, tier) # {}
    /\ \E colour \in {"Green", "Red", "Yellow"} : RuleHolds(colour, tier, data)

FirstMatchingTier(data) ==
    IF TierMatches("bright", data) THEN "bright"
    ELSE IF TierMatches("dim", data) THEN "dim"
    ELSE IF TierMatches("veryDim", data) THEN "veryDim"
    ELSE "overall"

Returned == pc = "done" /\ imageData.defined /\ ~analysis.threw

TiersExclusive ==
    (pc = "done" /\ imageData.defined) =>
        /\ BandOf(imageData.data, "bright") # {} =>
               analysis.consulted \cap {"dim", "veryDim"} = {}
        /\ (BandOf(imageData.data, "bright") = {}
              /\ BandOf(imageData.data, "dim") # {}) =>
               "veryDim" \notin analysis.consulted

\* C3: inside a tier the rules are tried Green, Red, Yellow with the stated
\* thresholds and the first match wins; a tier that was entered and did not
\* give the label matched none of its rules.
FirstRule(tier, data) ==
    IF GreenRule(tier, data) THEN "Green"
    ELSE IF RedRule(tier, data) THEN "Red"
    ELSE IF YellowRule(tier, data) THEN "Yellow"
    ELSE "None"

RuleOrderHolds ==
    (pc = "done" /\ imageData.defined) =>
        /\ analysis.site \in Tiers =>
               analysis.label = FirstRule(analysis.site, imageData.data)
        /\ \A tier \in analysis.consulted \ {analysis.site} :
               FirstRule(tier, imageData.data) = "None"
        /\ \A tier \in Tiers :
               (BandOf(imageData.data, tier) # {}
                  /\ FirstRule(tier, imageData.data) # "None"
                  /\ tier \in analysis.consulted) => analysis.site = tier

\* The bright means satisfy the Green rule and the Yellow rule: Green.
RuleOrderWitness ==
    /\ Returned
    /\ analysis.site = "bright"
    /\ GreenRule("bright", imageData.data)
    /\ YellowRule("bright", imageData.data)
    /\ analysis.label = "Green"

\* C4: every pixel is counted in exactly one of bright (> 60), dim
\* (25 < b <= 60), very-dim (10 < b <= 25) or nowhere (<= 10); the sums of a
\* bucket are over exactly its pixels; the counts and the ignored pixels add
\* up to the size of the region.
BucketsPartition ==
    (pc = "done" /\ imageData.defined) =>
        LET d == imageData.data
            a == analysis.acc
        IN  /\ a.brightPixels = Cardinality(BandOf(d, "bright"))
            /\ a.dimPixels = Cardinality(BandOf(d, "dim"))
            /\ a.veryDimPixels = Cardinality(BandOf(d, "veryDim"))
            /\ a.brightPixels + a.dimPixels + a.veryDimPixels
                 + Cardinality(BandOf(d, "ignored")) = Len(d)
            /\ a.redSum = SumOver(d, BandOf(d, "bright"), 1)
            /\ a.greenSum = SumOver(d, BandOf(d, "bright"), 2)
            /\ a.blueSum = SumOver(d, BandOf(d, "bright"), 3)
            /\ a.dimRedSum = SumOver(d, BandOf(d, "dim"), 1)
            /\ a.dimGreenSum = SumOver(d, BandOf(d, "dim"), 2)
            /\ a.dimBlueSum = SumOver(d, BandOf(d, "dim"), 3)
            /\ a.veryDimRedSum = SumOver(d, BandOf(d, "veryDim"), 1)
            /\ a.veryDimGreenSum = SumOver(d, BandOf(d, "veryDim"), 2)
            /\ a.veryDimBlueSum = SumOver(d, BandOf(d, "veryDim"), 3)

\* A region with a pixel of brightness exactly 60, one of exactly 25 and one
\* of exactly 10 has been scanned into the dim, very-dim and no bucket.
BucketsWitness ==
    /\ Returned
    /\ imageData.data = << <<60, 60, 60>>, <<25, 25, 25>>, <<10, 10, 10>> >>
    /\ analysis.acc.brightPixels = 0
    /\ analysis.acc.dimPixels = 1
    /\ analysis.acc.veryDimPixels = 1

\* C5: when no tier gave a label the means are taken over every pixel of the
\* region, ignored pixels included, and the result is Green if meanG >
\* meanR+1, meanG > meanB+1 and meanG > 20, otherwise Unknown.
LastResortHolds ==
    (pc = "done" /\ imageData.defined
       /\ FirstMatchingTier(imageData.data) = "overall") =>
        LET d == imageData.data
            n == Len(d)
            all == 1..n
            R == SumOver(d, all, 1)
            G == SumOver(d, all, 2)
            B == SumOver(d, all, 3)
        IN  analysis.label =
                IF n > 0 /\ G > R + n /\ G > B + n /\ G > 20 * n
                THEN "Green" ELSE "Unknown"

\* The lit pixels alone are greenish, the whole region is not: Unknown.
LastResortWitness ==
    /\ Returned
    /\ imageData.data = << <<40, 42, 40>>, <<0, 0, 0>> >>
    /\ analysis.site = "overall"
    /\ analysis.label = "Unknown"

\* C6: a missing region and a region of zero pixels give Unknown and raise
\* no error.
DegenerateInputHolds ==
    (pc = "done" /\ (~imageData.defined \/ Len(imageData.data) = 0)) =>
        /\ ~analysis.threw
        /\ analysis.label = "Unknown"

DegenerateInputWitness ==
    /\ pc = "done"
    /\ ~imageData.defined
    /\ analysis.label = "Unknown"

(***************************************************************************)
(* Properties of estimatePoleHeight, in the units of the model: heights in *)
(* tenths of a metre, confidences in tenths.                               *)
(***************************************************************************)
\* C7: with imageHeight = 0 the call fails with an error for any box.
ZeroHeightFails ==
    (pc = "done" /\ imageHeight = 0) => poleHeight.threw

\* C8: for imageHeight > 0 the first matching range of positionRatio =
\* ((y1+y2)/2)/imageHeight picks the reference: > 0.7 standard urban
\* intersection (4.5 m, 0.8), (0.4, 0.7] highway or major road (5.2 m, 0.7),
\* <= 0.4 highway overpass (6.1 m, 0.6); the reference is the same whatever
\* the size of the box, and height and confidence are the base values when
\* no size adjustment applies.
ReferenceFor(yTop, yBottom, H) ==
    IF 10 * (yTop + yBottom) > 14 * H THEN "Standard urban intersection"
    ELSE IF 10 * (yTop + yBottom) > 8 * H THEN "Highway or major road"
    ELSE "Highway overpass"

BaseHeight ==
    [r \in {"Standard urban intersection", "Highway or major road",
            "Highway overpass"} |->
        CASE r = "Standard urban intersection" -> 45
          [] r = "Highway or major road" -> 52
          [] r = "Highway overpass" -> 61]

BaseConfidence ==
    [r \in {"Standard urban intersection", "Highway or major road",
            "Highway overpass"} |->
        CASE r = "Standard urban intersection" -> 8
          [] r = "Highway or major road" -> 7
          [] r = "Highway overpass" -> 6]

BaseRangeHolds ==
    (pc = "done" /\ imageHeight > 0) =>
        LET ref == ReferenceFor(y1, y2, imageHeight)
            d == Abs(y2 - y1)
        IN  /\ poleHeight.referenceUsed = ref
            /\ (50 * d >= imageHeight /\ 10 * d <= imageHeight) =>
                   /\ poleHeight.estimatedHeight = BaseHeight[ref]
                   /\ poleHeight.confidence = BaseConfidence[ref]

\* positionRatio is exactly 0.7 and sizeRatio is 0.08: major road, base
\* values.
BaseRangeWitness ==
    /\ pc = "done"
    /\ imageHeight = 50 /\ y1 = 33 /\ y2 = 37
    /\ poleHeight.referenceUsed = "Highway or major road"
    /\ poleHeight.estimatedHeight = 52
    /\ poleHeight.confidence = 7

\* C9: with sizeRatio = |y2-y1|/imageHeight at most one adjustment applies:
\* sizeRatio > 0.1 multiplies the height by 0.9 and makes the confidence
\* min(confidence+0.1, 0.9); otherwise sizeRatio < 0.02 multiplies the
\* height by 1.2 and makes the confidence max(confidence-0.1, 0.5);
\* otherwise both keep their base values; the returned height is rounded to
\* one decimal place (a trailing 5 rounds up).
SizeAdjustHolds ==
    (pc = "done" /\ imageHeight > 0) =>
        LET ref == poleHeight.referenceUsed
            d == Abs(y2 - y1)
            h == BaseHeight[ref] * 10     \* hundredths of a metre
            c == BaseConfidence[ref]
        IN  IF 10 * d > imageHeight THEN
                /\ poleHeight.estimatedHeight = (h * 9 + 50) \div 100
                /\ poleHeight.confidence = IF c + 1 < 9 THEN c + 1 ELSE 9
            ELSE IF 50 * d < imageHeight THEN
                /\ poleHeight.estimatedHeight = (h * 12 + 50) \div 100
                /\ poleHeight.confidence = IF c - 1 > 5 THEN c - 1 ELSE 5
            ELSE
                /\ poleHeight.estimatedHeight = BaseHeight[ref]
                /\ poleHeight.confidence = c

\* A large box low in the image: 4.5 * 0.9 = 4.05 is returned as 4.1 with
\* confidence 0.9.
SizeAdjustWitness ==
    /\ pc = "done"
    /\ imageHeight = 50 /\ y1 = 40 /\ y2 = 46
    /\ poleHeight.estimatedHeight = 41
    /\ poleHeight.confidence = 9

\* C10: for imageHeight > 0 the returned confidence lies in [0.5, 0.9].
ConfidenceInRange ==
    (pc = "done" /\ imageHeight > 0) =>
        (5 <= poleHeight.confidence /\ poleHeight.confidence <= 9)

\* A box of zero height high in the image: 0.6 - 0.1 meets the floor 0.5.
ConfidenceWitness ==
    /\ pc = "done"
    /\ imageHeight = 50 /\ y1 = 5 /\ y2 = 5
    /\ poleHeight.referenceUsed = "Highway overpass"
    /\ poleHeight.confidence = 5

\* The box spans y = [0.75*H, 0.8*H] of an image of height H > 0, given in
\* either order.
SpansLowBand ==
    /\ imageHeight > 0
    /\ \/ (4 * y1 = 3 * imageHeight /\ 5 * y2 = 4 * imageHeight)
       \/ (4 * y2 = 3 * imageHeight /\ 5 * y1 = 4 * imageHeight)

\* C11 as stated: such a box gets the standard-urban-intersection reference
\* with the 1.2 multiplier, height 5.4 and confidence 0.7.
LowBandBoosted ==
    (pc = "done" /\ SpansLowBand) =>
        /\ poleHeight.referenceUsed = "Standard urban intersection"
        /\ poleHeight.estimatedHeight = 54
        /\ poleHeight.confidence = 7

\* C11 amended: the box is 5% of the image height, which is not below 2%, so
\* no size adjustment applies: standard urban intersection, height 4.5 and
\* confidence 0.8.
LowBandUnadjusted ==
    (pc = "done" /\ SpansLowBand) =>
        /\ poleHeight.referenceUsed = "Standard urban intersection"
        /\ poleHeight.estimatedHeight = 45
        /\ poleHeight.confidence = 8

LowBandWitness ==
    /\ pc = "done"
    /\ imageHeight = 40 /\ y1 = 30 /\ y2 = 32
    /\ poleHeight.estimatedHeight = 45
    /\ poleHeight.confidence = 8

\* C12: in a 1000 x 1000 image the box (480, 100, 520, 140) has
\* positionRatio 0.12 and sizeRatio 0.04 and gets the highway-overpass
\* reference without size adjustment: height 6.1, confidence 0.6.
ScenarioHolds ==
    (pc = "done" /\ imageHeight = 1000 /\ y1 = 100 /\ y2 = 140) =>
        LET positionRatio == Div(y1 + y2, 2 * imageHeight)
            sizeRatio == Div(Abs(y2 - y1), imageHeight)
        IN  /\ positionRatio.kind = "finite"
            /\ 100 * positionRatio.num = 12 * positionRatio.den
            /\ sizeRatio.kind = "finite"
            /\ 100 * sizeRatio.num = 4 * sizeRatio.den
            /\ poleHeight.referenceUsed = "Highway overpass"
            /\ poleHeight.estimatedHeight = 61
            /\ poleHeight.confidence = 6
            /\ ~poleHeight.threw

ScenarioWitness ==
    /\ pc = "done"
    /\ imageHeight = 1000 /\ y1 = 100 /\ y2 = 140
    /\ poleHeight.referenceUsed = "Highway overpass"
    /\ poleHeight.estimatedHeight = 61

(***************************************************************************)
(* Uniform and dark regions                                                *)
(***************************************************************************)
\* The region has at least one pixel and every pixel is p.
Uniform(p) ==
    /\ imageData.defined
    /\ Len(imageData.data) >= 1
    /\ \A i \in 1..Len(imageData.data) : imageData.data[i] = p

\* C14: a region whose pixels all have brightness <= 10 gives Unknown.
DarkRegionUnknown ==
    (pc = "done" /\ imageData.defined
       /\ \A i \in 1..Len(imageData.data) : Sum3(imageData.data[i]) <= 30) =>
        analysis.label = "Unknown"

\* C15: a region of pure green pixels gives Green, whatever its size.
PureGreenHolds ==
    (pc = "done" /\ Uniform(<<0, 255, 0>>)) =>
        (~analysis.threw /\ analysis.label = "Green")

PureGreenWitness ==
    /\ pc = "done"
    /\ Uniform(<<0, 255, 0>>)
    /\ Len(imageData.data) >= 2
    /\ analysis.label = "Green"
    /\ analysis.site = "bright"

\* C16: a region uniformly (200, 50, 50) gives Red.
UniformRedHolds ==
    (pc = "done" /\ Uniform(<<200, 50, 50>>)) =>
        (~analysis.threw /\ analysis.label = "Red")

UniformRedWitness ==
    /\ pc = "done"
    /\ Uniform(<<200, 50, 50>>)
    /\ analysis.label = "Red"
    /\ analysis.site = "bright"

\* C17: for a region uniformly (150, 120, 50) the bright Green and Red rules
\* do not match, the Yellow rule does, and the result is Yellow.
UniformYellowHolds ==
    (pc = "done" /\ Uniform(<<150, 120, 50>>)) =>
        /\ ~GreenRule("bright", imageData.data)
        /\ ~RedRule("bright", imageData.data)
        /\ YellowRule("bright", imageData.data)
        /\ analysis.label = "Yellow"

(***************************************************************************)
(* Properties of the Index component                                       *)
(***************************************************************************)
\* C13: every element of detections has a label among Red, Yellow and Green
\* (an Unknown detection is never kept, so none reaches the pole-height
\* estimation), and its confidence is the score of the detector item it was
\* made from.
DetectionsClassified ==
    \A i \in 1..Len(detections) :
        /\ detections[i].label \in {"Red", "Yellow", "Green"}
        /\ detections[i].confidence = detections[i].from.score

\* A run completed and kept a Green and a Red detection.
DetectionsWitness ==
    /\ Len(detections) = 2
    /\ detections[1].label = "Green" /\ detections[1].confidence = 90
    /\ detections[2].label = "Red" /\ detections[2].confidence = 50
    /\ detectionProgress = 100
    /\ ~isDetecting

\* C19: camera streams are cleaned up: whenever isCameraActive is false no
\* stream that was acquired still has live tracks.
StreamsCleanedUp ==
    ~isCameraActive => \A s \in StreamIds : streams[s] # "live"

\* C20: a non-empty detections list was computed from the selected image;
\* with no image selected detections is empty.
DetectionsOfSelected ==
    /\ detections # <<>> => detectionsOf = selectedImage
    /\ selectedImage = 0 => detections = <<>>

(***************************************************************************)
(* Properties of runDetection as a process                                 *)
(***************************************************************************)
\* The calls of runDetection that have started and not reached the end of
\* their finally block.
InFlight == { r \in RunIds : runs[r].pc # "idle" }

\* C21: isDetecting is true whenever a call of runDetection is in flight,
\* and at most one call of runDetection is in flight in every reachable
\* state, also after resetApp or a new upload during a run.
SingleRunInFlight ==
    /\ InFlight # {} => isDetecting
    /\ Cardinality(InFlight) <= 1

\* C22: a call of runDetection ends with isDetecting = false, on success
\* and on failure alike; when it fails, detections is as it was before the
\* run (empty, as the Analyze button requires) and detectionProgress is not
\* 100; while a call is in flight detectionProgress never decreases (every
\* call in flight can still succeed), and the step that sets it to 100 has
\* set detections.
RunOutcomeHolds ==
    [][\A r \in RunIds :
          /\ RunFailed(r) =>
                 /\ isDetecting' = FALSE
                 /\ detections' = <<>>
                 /\ detectionProgress' # 100
          /\ \A found \in Processed :
                 DetectorAnswered(r, found) =>
                     /\ isDetecting' = FALSE
                     /\ detections' = found
                     /\ detectionProgress' = 100
          /\ runs[r].pc # "idle" =>
                 /\ detectionProgress' >= detectionProgress
                 /\ detectionProgress' = 100 => runs'[r].pc = "idle"
      ]_vars

(***************************************************************************)
(* Properties of the crop of runDetection                                  *)
(***************************************************************************)
\* C23: the rectangle (x, y, width, height) asked of getImageData for a
\* detector box has x >= 0, y >= 0, width >= 0, height >= 0, ends inside
\* the image and lies inside [xmin, xmax] x [ymin, ymax]; the bbox kept in
\* the detection has xmin <= xmax, ymin <= ymax and its four values inside
\* the image.
CropClipped ==
    pc = "done" =>
        LET b == cropInput.box
            c == cropped
        IN  /\ c.x >= 0 /\ c.y >= 0
            /\ c.width >= 0 /\ c.height >= 0
            /\ c.x + c.width <= cropInput.width
            /\ c.y + c.height <= cropInput.height
            /\ b.xmin <= c.x /\ c.x + c.width <= b.xmax
            /\ b.ymin <= c.y /\ c.y + c.height <= b.ymax
            /\ ~c.threw =>
                   /\ c.bbox[1] <= c.bbox[3] /\ c.bbox[2] <= c.bbox[4]
                   /\ \A i \in {1, 3} :
                          0 <= c.bbox[i] /\ c.bbox[i] <= cropInput.width
                   /\ \A i \in {2, 4} :
                          0 <= c.bbox[i] /\ c.bbox[i] <= cropInput.height

(***************************************************************************)
(* The range of the heights of estimatePoleHeight                          *)
(***************************************************************************)
\* C24 as stated: for imageHeight > 0 every returned height lies between
\* 3.7 m and 6.1 m.
HeightInStandardRange ==
    (pc = "done" /\ imageHeight > 0) =>
        /\ poleHeight.estimatedHeight >= 37
        /\ poleHeight.estimatedHeight <= 61

\* C24 amended: for imageHeight > 0 every returned height lies between
\* 4.1 m (4.5 * 0.9, rounded) and 7.3 m (6.1 * 1.2, rounded).
HeightInReachedRange ==
    (pc = "done" /\ imageHeight > 0) =>
        /\ poleHeight.estimatedHeight >= 41
        /\ poleHeight.estimatedHeight <= 73

\* A small box high in a 1000 pixel image: 6.1 * 1.2 = 7.32 is returned as
\* 7.3, above the standard range.
HeightRangeWitness ==
    /\ pc = "done"
    /\ imageHeight = 1000 /\ y1 = 10 /\ y2 = 20
    /\ poleHeight.estimatedHeight = 73
    /\ poleHeight.referenceUsed = "Highway overpass"

====
